---- MODULE Spec2Model ----
(***************************************************************************)
(* Model of Eigen/src/IterativeLinearSolvers/MINRES.h: the kernel          *)
(* internal::minres and the wrapper MINRES::_solveWithGuess.               *)
(*                                                                         *)
(* Scalars are exact extended rationals <<n, d>>: d > 0 is the rational    *)
(* n/d in lowest terms, <<1,0>> is +Inf, <<-1,0>> is -Inf and <<0,0>> is   *)
(* NaN, with the IEEE-754 rules for the special values.  The square root   *)
(* of a rational that is not a perfect square is the triple <<n, d, 2>>;   *)
(* it only ever occurs as the returned error and is only compared.         *)
(* Matrices are dense: a product with a zero entry is evaluated.           *)
(***************************************************************************)
EXTENDS Integers, Sequences, FiniteSets, TLC

\* ------------------------------------------------------------------------
\* Bounds
\* ------------------------------------------------------------------------
MaxBudget == 3

\* ------------------------------------------------------------------------
\* Scalar arithmetic (RealScalar)
\* ------------------------------------------------------------------------
RECURSIVE Gcd(_, _)
Gcd(a, b) == IF b = 0 THEN a ELSE Gcd(b, a % b)

AbsInt(k) == IF k < 0 THEN -k ELSE k

SignInt(k) == IF k > 0 THEN 1 ELSE IF k < 0 THEN -1 ELSE 0

Norm(nn, dd) ==
  IF dd = 0 THEN <<SignInt(nn), 0>>
  ELSE LET g == Gcd(AbsInt(nn), dd) IN <<nn \div g, dd \div g>>

R(k) == <<k, 1>>
Q(nn, dd) == Norm(nn, dd)
Zero == <<0, 1>>
One == <<1, 1>>
NaN == <<0, 0>>
PInf == <<1, 0>>

IsNaN(a) == a = NaN
IsFinite(a) == Len(a) = 2 /\ a[2] > 0
IsRoot(a) == Len(a) = 3

\* sums and products cancel common factors before they multiply
Add(a, b) ==
  IF a[2] = 0 /\ b[2] = 0 THEN (IF a = b THEN a ELSE NaN)
  ELSE IF a[2] = 0 THEN a
  ELSE IF b[2] = 0 THEN b
  ELSE LET g == Gcd(a[2], b[2])
       IN Norm(a[1] * (b[2] \div g) + b[1] * (a[2] \div g), (a[2] \div g) * b[2])

Neg(a) == <<-a[1], a[2]>>
Sub(a, b) == Add(a, Neg(b))
Mul(a, b) ==
  IF a[2] = 0 \/ b[2] = 0 THEN <<SignInt(a[1]) * SignInt(b[1]), 0>>
  ELSE LET g1 == Gcd(AbsInt(a[1]), b[2])
           g2 == Gcd(AbsInt(b[1]), a[2])
       IN <<(a[1] \div g1) * (b[1] \div g2), (a[2] \div g2) * (b[2] \div g1)>>

\* 1/a; a zero divisor is +0 wherever the program divides (it is always the
\* result of a square root or a sum of squares)
Recip(a) ==
  IF a[1] > 0 THEN <<a[2], a[1]>>
  ELSE IF a[1] < 0 THEN <<-a[2], -a[1]>>
  ELSE IF a[2] = 0 THEN NaN ELSE PInf

Div(a, b) == Mul(a, Recip(b))

Less(a, b) ==
  IF IsNaN(a) \/ IsNaN(b) THEN FALSE
  ELSE IF a[2] = 0 /\ b[2] = 0 THEN a[1] < b[1]
  ELSE Sub(a, b)[1] < 0

Fabs(a) == <<AbsInt(a[1]), a[2]>>

RECURSIVE ISqrtIn(_, _, _)
ISqrtIn(k, lo, hi) ==
  IF lo >= hi THEN lo
  ELSE LET mid == (lo + hi + 1) \div 2
       IN IF mid * mid <= k THEN ISqrtIn(k, mid, hi) ELSE ISqrtIn(k, lo, mid - 1)

ISqrt(k) == ISqrtIn(k, 0, IF k < 46340 THEN k ELSE 46340)

IsSquare(k) == ISqrt(k) * ISqrt(k) = k

Sqrt(a) ==
  IF a[1] < 0 \/ IsNaN(a) THEN NaN
  ELSE IF a[2] = 0 THEN PInf
  ELSE IF IsSquare(a[1]) /\ IsSquare(a[2]) THEN <<ISqrt(a[1]), ISqrt(a[2])>>
  ELSE <<a[1], a[2], 2>>

\* a <= b where a may be an inexact square root and b is an exact scalar
Leq(a, b) ==
  IF IsRoot(a)
  THEN (~IsNaN(b)) /\ b[1] > 0 /\ ~Less(Mul(b, b), <<a[1], a[2]>>)
  ELSE (~IsNaN(a)) /\ (~IsNaN(b)) /\ ~Less(b, a)

\* ------------------------------------------------------------------------
\* Vectors and matrices
\* ------------------------------------------------------------------------
VecZero(k) == [i \in 1..k |-> Zero]
VecAdd(u, w) == [i \in 1..Len(u) |-> Add(u[i], w[i])]
VecSub(u, w) == [i \in 1..Len(u) |-> Sub(u[i], w[i])]
Scale(a, u) == [i \in 1..Len(u) |-> Mul(a, u[i])]
VecDiv(u, a) == Scale(Recip(a), u)

RECURSIVE SumSeq(_)
SumSeq(q) == IF Len(q) = 0 THEN <<0, 1>> ELSE Add(q[1], SumSeq(Tail(q)))

Dot(u, w) == SumSeq([i \in 1..Len(u) |-> Mul(u[i], w[i])])
SquaredNorm(u) == Dot(u, u)

MatVec(M, u) == [i \in 1..Len(M) |-> Dot(M[i], u)]

SelfadjointView(M) ==
  [i \in 1..Len(M) |-> [j \in 1..Len(M) |-> IF j <= i THEN M[i][j] ELSE M[j][i]]]

Diagonal(M) == [i \in 1..Len(M) |-> M[i][i]]

\* ------------------------------------------------------------------------
\* Inputs
\* ------------------------------------------------------------------------
Vec(q) == [i \in 1..Len(q) |-> R(q[i])]
Mat(rows) == [i \in 1..Len(rows) |-> Vec(rows[i])]

\* 1x1 systems: positive definite, indefinite, zero and non-zero b, and an
\* initial guess that may already solve the system
Problems1 ==
  { [mat |-> Mat(<<<<a>>>>), rhs |-> Vec(<<b>>), x0 |-> Vec(<<g>>)] :
      a \in {1, 4, -4}, b \in {0, 1, 2}, g \in {0, 1} }

\* 2x2 systems on the positive definite [[4,3],[3,4]], stored by its lower
\* triangle
Problems2 ==
  { [mat |-> Mat(<<<<4, 0>>, <<3, 4>>>>), rhs |-> Vec(b), x0 |-> Vec(<<0, 0>>)] :
      b \in {<<0, 0>>, <<1, 0>>, <<0, 2>>} }
  \cup { [mat |-> Mat(<<<<4, 0>>, <<3, 4>>>>), rhs |-> Vec(<<4, 3>>), x0 |-> Vec(<<1, 0>>)] }

Problems == Problems1 \cup Problems2

Tolerances == {Zero, Q(1, 4), Q(3, 5)}

Preconditioners == {"identity", "diagonal"}

\* what an unassigned scalar may hold
Garbage == {Zero, One}

GarbageVec(k) == [1..k -> Garbage]

\* ------------------------------------------------------------------------
\* State
\* ------------------------------------------------------------------------
VARIABLES
  mat, rhs, x, precond,            \* mp_matrix, b, x (in/out), m_preconditioner
  m_maxIterations, m_tolerance,    \* IterativeSolverBase configuration
  m_iterations, m_error, m_info,   \* IterativeSolverBase results; the kernel's
                                   \* iters and tol_error are references to the
                                   \* first two
  pc,                              \* position: "idle", "call", "loop", "break",
                                   \* "returned", "done"
  maxIters, rhsNorm2, threshold2,  \* kernel constants
  v, v_new, w_new, beta_new,       \* Lanczos state live across iterations
  c, c_old, s, s_old,              \* the two trailing rotations
  p_oold, p_old, p,                \* search directions
  norm_rMR, eta, residualNorm2, n,
  x0,                              \* the initial guess, kept for reference
  bodies,                          \* number of loop bodies executed
  matApplies, solveCalls,          \* operator applications, preconditioner solves
  divZero,                         \* names of the divisors that were zero when
                                   \* divided by
  exit                             \* how the loop was left: "none", "converged"
                                   \* (break) or "exhausted" (n reached maxIters)

vars == <<mat, rhs, x, precond, m_maxIterations, m_tolerance, m_iterations,
          m_error, m_info, pc, maxIters, rhsNorm2, threshold2, v, v_new, w_new,
          beta_new, c, c_old, s, s_old, p_oold, p_old, p, norm_rMR, eta,
          residualNorm2, n, x0, bodies, matApplies, solveCalls, divZero,
          exit>>

config == <<mat, rhs, precond, m_maxIterations, m_tolerance, x0>>

kernelVars == <<maxIters, rhsNorm2, threshold2, v, v_new, w_new, beta_new, c,
                c_old, s, s_old, p_oold, p_old, p, norm_rMR, eta,
                residualNorm2, n, bodies, matApplies, solveCalls, divZero,
                exit>>

N == Len(mat)

Init ==
  /\ \E pr \in Problems : mat = pr.mat /\ rhs = pr.rhs /\ x = pr.x0 /\ x0 = pr.x0
  /\ precond \in Preconditioners
  /\ m_maxIterations \in 0..MaxBudget
  /\ m_tolerance \in Tolerances
  /\ m_iterations = 0
  /\ m_error = Zero
  /\ m_info = "Success"
  /\ pc = "idle"
  /\ maxIters = 0 /\ rhsNorm2 = Zero /\ threshold2 = Zero
  /\ v = <<>> /\ v_new = <<>> /\ w_new = <<>> /\ beta_new = Zero
  /\ c = Zero /\ c_old = Zero /\ s = Zero /\ s_old = Zero
  /\ p_oold = <<>> /\ p_old = <<>> /\ p = <<>>
  /\ norm_rMR = Zero /\ eta = Zero /\ residualNorm2 = Zero /\ n = 0
  /\ bodies = 0 /\ matApplies = 0 /\ solveCalls = 0 /\ divZero = {}
  /\ exit = "none"

\* ------------------------------------------------------------------------
\* The external collaborators
\* ------------------------------------------------------------------------
\* mat * u, with the number of applications so far threaded through
Apply(cnt, u) == [y |-> MatVec(SelfadjointView(mat), u), cnt |-> cnt + 1]

\* precond.solve(u): the identity, or the Jacobi scaling by 1/diag(A) (1 where
\* the diagonal entry is zero)
PrecondSolve(cnt, u) ==
  [y |-> IF precond = "identity" THEN u
         ELSE [i \in 1..Len(u) |->
                 IF Diagonal(mat)[i] = Zero THEN u[i]
                 ELSE Div(u[i], Diagonal(mat)[i])],
   cnt |-> cnt + 1]

DivSite(name, d) == IF d = Zero THEN {name} ELSE {}

\* ------------------------------------------------------------------------
\* MINRES::_solveWithGuess, up to the call of the kernel (one column)
\* ------------------------------------------------------------------------
SolveWithGuess ==
  /\ pc = "idle"
  /\ m_iterations' = m_maxIterations
  /\ m_error' = m_tolerance
  /\ pc' = "call"
  /\ UNCHANGED <<config, x, m_info, kernelVars>>

\* ------------------------------------------------------------------------
\* internal::minres, initialisation
\* ------------------------------------------------------------------------
MinresInit ==
  /\ pc = "call"
  /\ LET a0 == Apply(matApplies, x)
         residual == VecSub(rhs, a0.y)
         s0 == PrecondSolve(solveCalls, residual)
         bn == Sqrt(Dot(residual, s0.y))
     IN /\ maxIters' = m_iterations
        /\ rhsNorm2' = SquaredNorm(rhs)
        /\ threshold2' = Mul(Mul(m_error, m_error), SquaredNorm(rhs))
        /\ v' = VecZero(N)
        /\ beta_new' = bn
        /\ v_new' = VecDiv(residual, bn)
        /\ w_new' = VecDiv(s0.y, bn)
        /\ matApplies' = a0.cnt
        /\ solveCalls' = s0.cnt
        /\ divZero' = divZero \cup DivSite("beta_new", bn)
  /\ c' = One /\ c_old' = One /\ s' = Zero /\ s_old' = Zero
  /\ p_oold' = VecZero(N)
  /\ p_old' = VecZero(N)
  /\ p' \in GarbageVec(N)              \* VectorType p(N): never assigned
  /\ norm_rMR' \in Garbage             \* norm_rMR = beta: beta never assigned
  /\ eta' = One
  /\ residualNorm2' \in Garbage        \* declared, never assigned
  /\ n' = 0
  /\ pc' = "loop"
  /\ UNCHANGED <<config, x, m_iterations, m_error, m_info, bodies, exit>>

\* ------------------------------------------------------------------------
\* internal::minres, the loop
\* ------------------------------------------------------------------------
\* the loop test letting one more body run
LoopCond_OffByOne == n <= maxIters

\* while ( n < maxIters )
LoopCond == n < maxIters

\* c=r1_hat/r1
NewCosine(r1_hat, r1) == Div(r1_hat, r1)

\* s=beta/r1
NewSine(beta, r1) == Div(beta, r1)

\* the residual norm obtained without a counted application of the operator
RecomputeResidual_NoApply(cnt, xv) ==
  [val |-> SquaredNorm(VecSub(MatVec(SelfadjointView(mat), xv), rhs)), cnt |-> cnt]

\* residualNorm2 = (mat*x-rhs).squaredNorm()
RecomputeResidual(cnt, xv) ==
  LET a == Apply(cnt, xv)
  IN [val |-> SquaredNorm(VecSub(a.y, rhs)), cnt |-> a.cnt]

\* if ( residualNorm2 < threshold2 ) break
ConvergenceTest(res) == Less(res, threshold2)

\* one execution of the loop body; beta, v_old, w, alpha, r1, r2, r3 and
\* r1_hat are assigned in the body before they are read in it
LoopBody ==
  /\ pc = "loop"
  /\ LoopCond
  /\ LET beta == beta_new
         v_old == v
         v_cur == v_new
         w == w_new
         a1 == Apply(matApplies, w)
         vn0 == VecSub(a1.y, Scale(beta, v_old))
         alpha == Dot(vn0, w)
         vn1 == VecSub(vn0, Scale(alpha, v_cur))
         s1 == PrecondSolve(solveCalls, vn1)
         bn == Sqrt(Dot(vn1, s1.y))
         r2 == Add(Mul(s, alpha), Mul(Mul(c, c_old), beta))
         r3 == Mul(s_old, beta)
         r1_hat == Sub(Mul(c, alpha), Mul(Mul(c_old, s), beta))
         r1 == Sqrt(Add(Mul(r1_hat, r1_hat), Mul(bn, bn)))
         cN == NewCosine(r1_hat, r1)
         sN == NewSine(beta, r1)
         pN == VecDiv(VecSub(VecSub(w, Scale(r2, p)), Scale(r3, p_old)), r1)
         xN == VecAdd(x, Scale(Mul(cN, eta), pN))
         rr == RecomputeResidual(a1.cnt, xN)
     IN /\ v' = v_cur
        /\ v_new' = VecDiv(vn1, bn)
        /\ w_new' = VecDiv(s1.y, bn)
        /\ beta_new' = bn
        /\ c_old' = c /\ s_old' = s
        /\ c' = cN /\ s' = sN
        /\ p_oold' = p_old /\ p_old' = p /\ p' = pN
        /\ x' = xN
        /\ norm_rMR' = Mul(norm_rMR, Fabs(sN))
        /\ residualNorm2' = rr.val
        /\ matApplies' = rr.cnt
        /\ solveCalls' = s1.cnt
        /\ divZero' = divZero \cup DivSite("beta_new", bn) \cup DivSite("r1", r1)
        /\ bodies' = bodies + 1
        /\ IF ConvergenceTest(rr.val)
           THEN /\ pc' = "break"
                /\ UNCHANGED <<eta, n>>
           ELSE /\ eta' = Mul(Neg(sN), eta)
                /\ n' = n + 1
                /\ pc' = "loop"
  /\ UNCHANGED <<config, m_iterations, m_error, m_info, maxIters, rhsNorm2,
                 threshold2, exit>>

\* after the loop: tol_error = std::sqrt(residualNorm2 / rhsNorm2); iters = n
MinresReturn ==
  /\ \/ pc = "break" /\ exit' = "converged"
     \/ pc = "loop" /\ ~LoopCond /\ exit' = "exhausted"
  /\ m_error' = Sqrt(Div(residualNorm2, rhsNorm2))
  /\ m_iterations' = n
  /\ divZero' = divZero \cup DivSite("rhsNorm2", rhsNorm2)
  /\ pc' = "returned"
  /\ UNCHANGED <<config, x, m_info, maxIters, rhsNorm2, threshold2, v, v_new,
                 w_new, beta_new, c, c_old, s, s_old, p_oold, p_old, p,
                 norm_rMR, eta, residualNorm2, n, bodies, matApplies,
                 solveCalls>>

\* ------------------------------------------------------------------------
\* MINRES::_solveWithGuess, after the kernel returned
\* ------------------------------------------------------------------------
\* the status decided by a strict comparison, as the kernel's test is
Info_Strict(err, tol) ==
  IF Leq(err, tol) /\ err # tol THEN "Success" ELSE "NoConvergence"

\* m_error <= Base::m_tolerance ? Success : NoConvergence
Info(err, tol) == IF Leq(err, tol) THEN "Success" ELSE "NoConvergence"

SolveWithGuessFinish ==
  /\ pc = "returned"
  /\ m_info' = Info(m_error, m_tolerance)
  /\ pc' = "done"
  /\ UNCHANGED <<config, x, m_iterations, m_error, kernelVars>>

Next ==
  \/ SolveWithGuess
  \/ MinresInit
  \/ LoopBody
  \/ MinresReturn
  \/ SolveWithGuessFinish

Spec == Init /\ [][Next]_vars

\* The call is synchronous and single-threaded: control keeps advancing until
\* _solveWithGuess has finished.  Every step of Next changes pc or n, and some
\* step of Next is possible in every position but "done".
Positions == {"idle", "call", "loop", "break", "returned", "done"}

Advance == pc # "done" /\ pc' \in Positions /\ n' \in 0..(MaxBudget + 1)

FairSpec == Spec /\ WF_<<pc, n>>(Advance)

\* ------------------------------------------------------------------------
\* Well-formedness of the model's arithmetic: every scalar the recurrence
\* computes with is an exact extended rational
\* ------------------------------------------------------------------------
ExactScalars ==
  /\ Len(beta_new) = 2 /\ Len(c) = 2 /\ Len(s) = 2 /\ Len(eta) = 2
  /\ Len(residualNorm2) = 2 /\ Len(norm_rMR) = 2
  /\ \A i \in 1..Len(x) : Len(x[i]) = 2
  /\ \A i \in 1..Len(v_new) : Len(v_new[i]) = 2
  /\ \A i \in 1..Len(p) : Len(p[i]) = 2

\* ------------------------------------------------------------------------
\* Vocabulary of the properties
\* ------------------------------------------------------------------------
Returned == pc \in {"returned", "done"}
InLoop == pc \in {"loop", "break"}
Entered == pc \in {"loop", "break", "returned", "done"}

AllFinite(u) == \A i \in 1..Len(u) : IsFinite(u[i])

\* ||A x - b||^2 for the current x, recomputed from the inputs
TrueResidualNorm2 == SquaredNorm(VecSub(MatVec(SelfadjointView(mat), x), rhs))

\* symmetric positive definite, by the leading minors (sizes 1 and 2)
IsSPD(M) ==
  LET A == SelfadjointView(M)
  IN /\ Less(Zero, A[1][1])
     /\ Len(M) = 2 => Less(Zero, Sub(Mul(A[1][1], A[2][2]), Mul(A[1][2], A[2][1])))

\* ------------------------------------------------------------------------
\* C1: for every budget k = maxIterations >= 0 the loop body runs at most k
\* times, the call always returns, and the iteration count written back is
\* between 0 and k.
\* ------------------------------------------------------------------------
C1_Bounded ==
  /\ bodies <= m_maxIterations
  /\ Returned => m_iterations \in 0..m_maxIterations

\* every step moves the control position or the iteration counter, so under
\* FairSpec a call that did not return would have to step forever
C1_BudgetRespected ==
  [](C1_Bounded) /\ [][<<pc, n>>' # <<pc, n>>]_vars /\ <>(Returned)

\* the budget is used up entirely: k >= 2 bodies ran and the call returned
C1_Witness == Returned /\ m_maxIterations >= 2 /\ bodies = m_maxIterations

\* ------------------------------------------------------------------------
\* C2: on return, iters equals the number of loop bodies executed, on both
\* exit paths.
\* ------------------------------------------------------------------------
C2_ItersCountsBodies == Returned => m_iterations = bodies

\* ------------------------------------------------------------------------
\* C3: on return, for every budget (0 included) and on both exit paths,
\* tol_error is sqrt(||A x - b||^2 / ||b||^2) at the returned x (stated for
\* b # 0, where the quotient is a number).
\* ------------------------------------------------------------------------
C3_ErrorOfReturnedX ==
  (Returned /\ rhs # VecZero(N)) =>
     m_error = Sqrt(Div(TrueResidualNorm2, SquaredNorm(rhs)))

\* ------------------------------------------------------------------------
\* C4: with b = 0 the kernel returns at once: x is the initial guess, zero
\* iterations, zero error, and nothing was divided by zero.
\* ------------------------------------------------------------------------
C4_ZeroRhsReturnsAtOnce ==
  (Returned /\ rhs = VecZero(N)) =>
     /\ x = x0
     /\ bodies = 0
     /\ m_iterations = 0
     /\ m_error = Zero
     /\ divZero = {}

\* ------------------------------------------------------------------------
\* C5: A positive definite, b # 0, x0 = 0, identity preconditioner, budget
\* >= N and a positive tolerance: the convergence test succeeds within N
\* loop bodies.
\* ------------------------------------------------------------------------
C5_ConvergesWithinN ==
  ( /\ Returned
    /\ IsSPD(mat)
    /\ rhs # VecZero(N)
    /\ x0 = VecZero(N)
    /\ precond = "identity"
    /\ m_maxIterations >= N
    /\ Less(Zero, m_tolerance) ) =>
     /\ exit = "converged"
     /\ bodies <= N

\* ------------------------------------------------------------------------
\* C6: a zero pivot (beta_new = 0 or r1 = 0) is never divided by, and x and
\* tol_error are well-defined numbers on return.
\* ------------------------------------------------------------------------
C6_NoDivisionByZeroPivot ==
  /\ divZero \cap {"beta_new", "r1"} = {}
  /\ (Returned /\ m_maxIterations >= 1 /\ rhs # VecZero(N)) =>
        AllFinite(x) /\ (IsFinite(m_error) \/ IsRoot(m_error))

\* ------------------------------------------------------------------------
\* C7: each loop body applies the operator exactly once and calls the
\* preconditioner's solve exactly once: after j bodies, 1 + j applications
\* and 1 + j solves (the 1 being the initialisation).
\* ------------------------------------------------------------------------
C7_OncePerBody ==
  Entered => matApplies = 1 + bodies /\ solveCalls = 1 + bodies

\* C7 as amended: each loop body applies the operator exactly twice (mat*w in
\* the Lanczos step, mat*x for the residual) and calls solve exactly once:
\* after j bodies, 1 + 2j applications and 1 + j solves.
C7_TwicePerBody ==
  Entered => matApplies = 1 + 2 * bodies /\ solveCalls = 1 + bodies

C7_Witness == pc = "returned" /\ bodies >= 2 /\ matApplies = 1 + 2 * bodies

\* ------------------------------------------------------------------------
\* C8: with maxIterations >= 1, info() is Success when the loop was left by
\* the convergence test and NoConvergence when the budget was exhausted
\* (also when the achieved error equals the tolerance).
\* ------------------------------------------------------------------------
C8_StatusFollowsExit ==
  (pc = "done" /\ m_maxIterations >= 1) =>
     /\ exit = "converged" => m_info = "Success"
     /\ exit = "exhausted" => m_info = "NoConvergence"

\* C8 as amended: with maxIterations >= 1 and a tolerance >= 0, info() is
\* Success when the loop was left by the convergence test; when the budget
\* was exhausted it is NoConvergence unless the achieved error equals the
\* tolerance exactly, and then it is Success.
C8_StatusFollowsComparison ==
  (pc = "done" /\ m_maxIterations >= 1) =>
     /\ exit = "converged" => m_info = "Success"
     /\ exit = "exhausted" => (m_info = "NoConvergence" <=> m_error # m_tolerance)

\* the budget is exhausted with the achieved error exactly at a positive
\* tolerance, and the status is Success
C8_Witness ==
  /\ pc = "done" /\ m_maxIterations >= 1 /\ exit = "exhausted"
  /\ m_error = m_tolerance /\ Less(Zero, m_tolerance) /\ m_info = "Success"

\* ------------------------------------------------------------------------
\* C9: at the start of the loop and after every loop body the rotation pair
\* satisfies c^2 + s^2 = 1 (stated for the bodies that leave c and s numbers).
\* ------------------------------------------------------------------------
C9_UnitRotation ==
  (InLoop /\ IsFinite(c) /\ IsFinite(s)) => Add(Mul(c, c), Mul(s, s)) = One

\* ------------------------------------------------------------------------
\* C10: p, p_old and p_oold are all zero before the first loop body.
\* ------------------------------------------------------------------------
C10_DirectionsStartZero ==
  (pc = "loop" /\ bodies = 0) =>
     p = VecZero(N) /\ p_old = VecZero(N) /\ p_oold = VecZero(N)

====
